---- MODULE Spec2Model ----
\* A model of result-ts (src/src/index.ts): the Result value (OkImpl / ErrImpl),
\* call-site capture from the stack text, the trace accumulation done by Err,
\* unwrap / unwrapErr, Throwable, and the JSON text encoding an application
\* applies to a Result.
EXTENDS Integers, Sequences, FiniteSets, TLC

VARIABLES
    val,      \* the JavaScript value the application holds (a Result or a raw value)
    op,       \* the operation that produced val (or threw)
    arg,      \* the argument that operation was given
    stack,    \* the stack report `new Error().stack` seen by the last getCallSite
    here,     \* what the last getCallSite returned (a CallSite or undefined)
    thrown,   \* the value the last operation threw, Nothing when it returned
    steps,    \* operations applied since val was made afresh
    context,  \* the context string the last call of Err was given, if any
    invoked,  \* whether the last operation called the function it was given
    promise   \* the promise of the last AsyncThrowable: "none" when there is
              \* none, else "pending", "fulfilled" or "rejected"

vars == <<val, op, arg, stack, here, thrown, steps, context, invoked, promise>>

\* ---------------------------------------------------------------- bounds

MaxSteps == 4      \* operations the application applies to one fresh value

\* ------------------------------------------------------ JavaScript values

Undefined == [k |-> "undef"]
Null      == [k |-> "null"]
Nothing   == [k |-> "nothing"]
Str(s)    == [k |-> "str", s |-> s]
Num(n)    == [k |-> "num", n |-> n]
Bool(b)   == [k |-> "bool", b |-> b]
Arr(items)  == [k |-> "arr", items |-> items]
Obj(cls, f) == [k |-> "obj", cls |-> cls, f |-> f]

\* o[name], undefined when o has no such property
Get(o, name) ==
    IF o.k = "obj" /\ name \in DOMAIN o.f THEN o.f[name] ELSE Undefined

\* `name in o`
In(name, o) == o.k = "obj" /\ name \in DOMAIN o.f

\* ToBoolean
Truthy(v) ==
    CASE v.k \in {"undef", "null", "nothing"} -> FALSE
      [] v.k = "str"  -> v.s # ""
      [] v.k = "num"  -> v.n # 0
      [] v.k = "bool" -> v.b
      [] OTHER        -> TRUE

\* typeof v === "object"
TypeofObject(v) == v.k \in {"obj", "arr", "null"}

\* v instanceof cls
InstanceOf(v, cls) == v.k = "obj" /\ v.cls = cls

\* new Error(message)
NewError(message) == Obj("Error", [message |-> Str(message)])

\* ------------------------------------------------------------ the classes

OkImpl(value) ==
    Obj("OkImpl", [isOk |-> Bool(TRUE), isErr |-> Bool(FALSE),
                   Ok |-> value, Err |-> Undefined])

\* ErrImpl with the error also stored in the Ok field
ErrImplOkPopulated(error, trace) ==
    Obj("ErrImpl", ("_trace" :> Arr(trace)) @@
                   [isOk |-> Bool(FALSE), isErr |-> Bool(TRUE),
                    Ok |-> error, Err |-> error])

ErrImpl(error, trace) ==
    Obj("ErrImpl", ("_trace" :> Arr(trace)) @@
                   [isOk |-> Bool(FALSE), isErr |-> Bool(TRUE),
                    Ok |-> Undefined, Err |-> error])

\* ErrImpl.trace(): the sequence held in _trace
ErrImplTrace(r) == Get(r, "_trace").items

\* whether r.trace is a method of r (it lives on ErrImpl's prototype)
HasTraceMethod(r) == InstanceOf(r, "ErrImpl")

\* Ok(...args): no argument at all gives undefined
Ok(args) == OkImpl(IF Len(args) = 0 THEN Undefined ELSE args[1])

\* -------------------------------------------------------- the stack report

File == "index.test.ts"

\* a function of the application or of the library on the call stack; fn = ""
\* is module scope
Frame(fn, line) == [fn |-> fn, line |-> line]
Line(shape, fn, line) == [shape |-> shape, fn |-> fn, line |-> line]

\* a V8 frame line: "    at fn (file:line:col)", at module scope "    at file:line:col"
V8Line(fr) ==
    IF fr.fn = "" THEN Line("at loc", "", fr.line)
    ELSE Line("at fn (loc)", fr.fn, fr.line)

\* a Firefox/Safari frame line: "fn@file:line:col", "@file:line:col" at module scope
FFLine(fr) ==
    IF fr.fn = "" THEN Line("@loc", "", fr.line)
    ELSE Line("fn@loc", fr.fn, fr.line)

RECURSIVE MapLines(_, _)
MapLines(dialect, callers) ==
    IF callers = <<>> THEN <<>>
    ELSE <<IF dialect = "v8" THEN V8Line(Head(callers)) ELSE FFLine(Head(callers))>>
         \o MapLines(dialect, Tail(callers))

\* err.stack.split("\n") of `new Error()` made in getCallSite, called by Err,
\* called by callers[1], called by callers[2]... V8 starts with the line
\* "Error"; Firefox/Safari has no such line and ends with a line break.
StackLines(dialect, callers) ==
    IF dialect = "v8"
    THEN <<Line("Error", "", 0),
           V8Line(Frame("getCallSite", 111)), V8Line(Frame("Err", 173))>>
         \o MapLines("v8", callers)
    ELSE <<FFLine(Frame("getCallSite", 111)), FFLine(Frame("Err", 173))>>
         \o MapLines("ff", callers) \o <<Line("", "", 0)>>

NoStack == [present |-> FALSE, lines |-> <<>>]

\* the stack reports a runtime hands to getCallSite: none at all, a V8 report
\* cut after the frame of Err (Error.stackTraceLimit = 2), V8 reports for Err
\* called in inner (called by outer) and at module scope, and Firefox/Safari
\* reports for Err called in inner (called from module code that leaves no
\* frame) and in inner called by outer
Stacks ==
    { NoStack,
      [present |-> TRUE, lines |-> StackLines("v8", <<>>)],
      [present |-> TRUE,
       lines |-> StackLines("v8", <<Frame("inner", 25), Frame("outer", 31)>>)],
      [present |-> TRUE, lines |-> StackLines("v8", <<Frame("", 38)>>)],
      [present |-> TRUE, lines |-> StackLines("ff", <<Frame("inner", 25)>>)],
      [present |-> TRUE,
       lines |-> StackLines("ff", <<Frame("inner", 25), Frame("outer", 31)>>)] }

CallSite(functionName, file, line) ==
    Obj("Object", [functionName |-> functionName, file |-> Str(file),
                   line |-> Num(line)])

\* ParseLine with a record made of any line, matched or not
ParseLineAnyText(l) ==
    CallSite(IF l.fn = "" THEN Undefined ELSE Str(l.fn), File, l.line)

\* the four patterns tried on the caller's line, in the order of the code
ParseLine(l) ==
    CASE l.shape = "at fn (loc)" ->
            CallSite(IF l.fn = "<anonymous>" THEN Undefined ELSE Str(l.fn),
                     File, l.line)
      [] l.shape = "fn@loc" ->
            CallSite(IF l.fn = "" THEN Undefined ELSE Str(l.fn), File, l.line)
      [] l.shape = "at (loc)" -> CallSite(Undefined, File, l.line)
      [] l.shape = "at loc"   -> CallSite(Undefined, File, l.line)
      [] OTHER -> Undefined

getCallSite(stk) ==
    IF ~stk.present THEN Undefined
    ELSE IF Len(stk.lines) < 4 THEN Undefined
    ELSE ParseLine(stk.lines[4])

\* ------------------------------------------------------------------ Err

\* InitialTrace without the test of newCallSite: a failed capture leaves an
\* undefined entry in the trace
InitialTraceUnchecked(newCallSite) == <<newCallSite>>

\* let trace = newCallSite ? [newCallSite] : []
InitialTrace(newCallSite) ==
    IF Truthy(newCallSite) THEN <<newCallSite>> ELSE <<>>

\* error instanceof ErrImpl: the input is an existing Failure
IsErrImpl(error) == InstanceOf(error, "ErrImpl")

\* error = error.Err for an existing Failure, the input itself otherwise
ErrValue(error) ==
    IF IsErrImpl(error) THEN Get(error, "Err") ELSE error

\* error && typeof error === "object" && "cause" in error && error.cause
HasCause(error) ==
    /\ Truthy(error)
    /\ TypeofObject(error)
    /\ In("cause", error)
    /\ Truthy(Get(error, "cause"))

\* (cause instanceof OkImpl || cause instanceof ErrImpl) && cause.isErr
CauseIsErr(cause) ==
    /\ InstanceOf(cause, "OkImpl") \/ InstanceOf(cause, "ErrImpl")
    /\ Truthy(Get(cause, "isErr"))

\* trace = newCallSite ? [newCallSite, ...previousTrace] : previousTrace
CauseTrace(newCallSite, previousTrace) ==
    IF Truthy(newCallSite) THEN <<newCallSite>> \o previousTrace
    ELSE previousTrace

\* Err(error), run where getCallSite sees the stack report stk
Err(error, stk) ==
    LET newCallSite == getCallSite(stk)
        trace0 == InitialTrace(newCallSite)
        trace1 == IF IsErrImpl(error)
                  THEN ErrImplTrace(error) \o trace0
                  ELSE trace0
        error1 == ErrValue(error)
        cause  == Get(error1, "cause")
        previousTrace ==
            IF HasTraceMethod(cause) THEN ErrImplTrace(cause) ELSE <<>>
        trace2 == IF HasCause(error1) /\ CauseIsErr(cause)
                  THEN CauseTrace(newCallSite, previousTrace)
                  ELSE trace1
    IN  ErrImpl(error1, trace2)

\* ------------------------------------------------- unwrap, unwrapErr, Throwable

\* how a call ends: it returns v, or it throws v
Return(v) == [thrown |-> FALSE, v |-> v]
Throw(v)  == [thrown |-> TRUE, v |-> v]

IsResult(r) == InstanceOf(r, "OkImpl") \/ InstanceOf(r, "ErrImpl")

\* r.unwrap()
unwrap(r) ==
    IF InstanceOf(r, "OkImpl") THEN Return(Get(r, "Ok"))
    ELSE Throw(NewError("Called unwrap() on an Err value"))

\* r.unwrapErr()
unwrapErr(r) ==
    IF InstanceOf(r, "OkImpl")
    THEN Throw(NewError("Called unwrapErr() on an Ok value"))
    ELSE Return(Get(r, "Err"))

\* Throwable(fn), where calling fn ends as `outcome`
Throwable(outcome, stk) ==
    IF ~outcome.thrown THEN Ok(<<outcome.v>>) ELSE Err(outcome.v, stk)

\* r.trace(): a method of ErrImpl alone, so the call on an OkImpl is a call of
\* undefined and raises a TypeError
trace(r) ==
    IF HasTraceMethod(r) THEN Return(Arr(ErrImplTrace(r)))
    ELSE Throw(Obj("TypeError", [message |-> Str("r.trace is not a function")]))

\* withoutTraces with the trace left in place
withoutTracesKeepsTrace(r) == r

\* withoutTraces(r): the same Success, or a new Failure with the same error
\* value and an empty trace
withoutTraces(r) ==
    IF Truthy(Get(r, "isErr")) THEN ErrImpl(Get(r, "Err"), <<>>) ELSE r

\* the functions the application maps over a Success: x => Ok(x * 2) and
\* x => Err("fail"); each returns a Result
MapFns == {"double", "fail"}

ApplyFn(fn, x, stk) ==
    IF fn = "double"
    THEN Ok(<<IF x.k = "num" THEN Num(2 * x.n) ELSE x>>)
    ELSE Err(Str("fail"), stk)

\* map that wraps what fn returns in a Success once more
mapWrapsAgain(r, fn, stk) ==
    IF Truthy(Get(r, "isOk"))
    THEN [v |-> Ok(<<ApplyFn(fn, Get(r, "Ok"), stk)>>), invoked |-> TRUE]
    ELSE [v |-> r, invoked |-> FALSE]

\* map(r, fn): fn applied to the value of a Success, a Failure passed through
\* without a call of fn
map(r, fn, stk) ==
    IF Truthy(Get(r, "isOk"))
    THEN [v |-> ApplyFn(fn, Get(r, "Ok"), stk), invoked |-> TRUE]
    ELSE [v |-> r, invoked |-> FALSE]

\* AsyncThrowable(fn), the call: fn() throws, and the throw leaves
\* AsyncThrowable, or fn() returns its promise and AsyncThrowable returns the
\* promise chained on it
AsyncThrowableCall(called) ==
    IF called.thrown THEN Throw(called.v) ELSE Return(Str("promise"))

\* AsyncThrowable(fn), once fn's promise is settled: .then(value => Ok(value))
\* on a fulfilment, .catch(error => Err(error)) on a rejection
AsyncThrowableSettle(settled, stk) ==
    IF ~settled.thrown THEN Ok(<<settled.v>>) ELSE Err(settled.v, stk)

\* --------------------------------------------------------- the text encoding

\* the own enumerable properties JSON.stringify writes: an Error's message and
\* cause are not enumerable
Enumerable(o) == IF o.cls = "Error" THEN {} ELSE DOMAIN o.f

\* JSON.parse(JSON.stringify(v)): a property holding undefined is left out, an
\* array element holding undefined becomes null, every object comes back plain
RECURSIVE JSONRoundTrip(_)
JSONRoundTrip(v) ==
    CASE v.k = "obj" ->
            Obj("Object",
                [n \in {m \in Enumerable(v) : v.f[m] # Undefined} |->
                    JSONRoundTrip(v.f[n])])
      [] v.k = "arr" ->
            Arr([i \in DOMAIN v.items |->
                    IF v.items[i] = Undefined THEN Null
                    ELSE JSONRoundTrip(v.items[i])])
      [] OTHER -> v

\* the trace of r when r carries one
TraceOf(r) == IF In("_trace", r) THEN Get(r, "_trace").items ELSE <<>>

\* the raw error values the application makes: a string, a plain object
RawErrors == { Str("fail"), Obj("Object", [code |-> Str("SERVICE_A_ERROR")]) }

\* ------------------------------------------------------------------ actions

Init ==
    /\ val = Nothing
    /\ op = "init"
    /\ arg = Nothing
    /\ stack = NoStack
    /\ here = Undefined
    /\ thrown = Nothing
    /\ steps = 0
    /\ context = Undefined
    /\ invoked = FALSE
    /\ promise = "none"

\* a synchronous operation that is given no context and no function; the
\* application runs it when it awaits no promise
Synchronous ==
    /\ promise # "pending"
    /\ context' = Undefined
    /\ invoked' = FALSE
    /\ promise' = "none"

\* Ok() and Ok(42)
CallOk ==
    \E args \in {<<>>, <<Num(42)>>} :
        /\ val' = Ok(args)
        /\ op' = "Ok"
        /\ arg' = IF args = <<>> THEN Nothing ELSE args[1]
        /\ stack' = NoStack
        /\ here' = Undefined
        /\ thrown' = Nothing
        /\ steps' = 0
        /\ Synchronous

\* the context strings the application passes to Err
Contexts == { Str("connecting to database") }

\* Err(input) and Err(input, context), on a fresh raw error or on the value at hand
CallErr ==
    \E input \in (RawErrors \cup {val}) \ {Nothing}, stk \in Stacks,
       c \in Contexts \cup {Undefined} :
        /\ promise # "pending"
        /\ input = val => steps < MaxSteps
        /\ val' = Err(input, stk)
        /\ op' = "Err"
        /\ arg' = input
        /\ stack' = stk
        /\ here' = getCallSite(stk)
        /\ thrown' = Nothing
        /\ steps' = IF input = val THEN steps + 1 ELSE 0
        /\ context' = c
        /\ invoked' = FALSE
        /\ promise' = "none"

\* the application makes an error that names the value at hand as its cause:
\* new Error("outer failure", { cause: val })
MakeError ==
    /\ val # Nothing
    /\ steps < MaxSteps
    /\ val' = Obj("Error", [message |-> Str("outer failure"), cause |-> val])
    /\ op' = "MakeError"
    /\ arg' = val
    /\ stack' = NoStack
    /\ here' = Undefined
    /\ thrown' = Nothing
    /\ steps' = steps + 1
    /\ Synchronous

\* JSON.parse(JSON.stringify(val))
Serialize ==
    /\ val \notin {Nothing, Undefined}
    /\ steps < MaxSteps
    /\ val' = JSONRoundTrip(val)
    /\ op' = "JSON"
    /\ arg' = val
    /\ stack' = NoStack
    /\ here' = Undefined
    /\ thrown' = Nothing
    /\ steps' = steps + 1
    /\ Synchronous

\* an operation on val that ends as `outcome`
Finish(name, outcome) ==
    /\ steps < MaxSteps
    /\ op' = name
    /\ arg' = val
    /\ val' = IF outcome.thrown THEN Nothing ELSE outcome.v
    /\ thrown' = IF outcome.thrown THEN outcome.v ELSE Nothing
    /\ steps' = steps + 1

\* val.unwrap()
CallUnwrap ==
    /\ IsResult(val)
    /\ Finish("unwrap", unwrap(val))
    /\ stack' = NoStack
    /\ here' = Undefined
    /\ Synchronous

\* val.unwrapErr()
CallUnwrapErr ==
    /\ IsResult(val)
    /\ Finish("unwrapErr", unwrapErr(val))
    /\ stack' = NoStack
    /\ here' = Undefined
    /\ Synchronous

\* Throwable(fn) for fn one of () => val.unwrap(), () => 42 (val left aside),
\* () => { throw val }
CallThrowable ==
    \E fn \in {"unwrap", "return", "throw"}, stk \in Stacks :
        LET outcome == CASE fn = "unwrap" -> unwrap(val)
                         [] fn = "return" -> Return(Num(42))
                         [] fn = "throw"  -> Throw(val)
        IN  /\ val # Nothing
            /\ fn = "unwrap" => IsResult(val)
            /\ outcome.thrown \/ stk = NoStack
            /\ Finish("Throwable:" \o fn, Return(Throwable(outcome, stk)))
            /\ stack' = stk
            /\ here' = getCallSite(stk)
            /\ promise # "pending"
            /\ context' = Undefined
            /\ invoked' = TRUE
            /\ promise' = "none"

\* val.trace()
CallTrace ==
    /\ IsResult(val)
    /\ Finish("trace", trace(val))
    /\ stack' = NoStack
    /\ here' = Undefined
    /\ Synchronous

\* withoutTraces(val)
CallWithoutTraces ==
    /\ IsResult(val)
    /\ Finish("withoutTraces", Return(withoutTraces(val)))
    /\ stack' = NoStack
    /\ here' = Undefined
    /\ Synchronous

\* map(val, fn)
CallMap ==
    \E fn \in MapFns, stk \in Stacks :
        LET m == map(val, fn, stk)
            calledErr == m.invoked /\ fn = "fail"
        IN  /\ IsResult(val)
            /\ calledErr \/ stk = NoStack
            /\ Finish("map:" \o fn, Return(m.v))
            /\ stack' = stk
            /\ here' = getCallSite(stk)
            /\ promise # "pending"
            /\ context' = Undefined
            /\ invoked' = m.invoked
            /\ promise' = "none"

\* AsyncThrowable(fn) for fn an async function (it returns a promise), or a
\* function that throws before it returns a promise
CallAsyncThrowable ==
    \E called \in {Return(Str("promise"))} \cup { Throw(e) : e \in RawErrors } :
        LET outcome == AsyncThrowableCall(called)
        IN  /\ promise # "pending"
            /\ op' = "AsyncThrowable"
            /\ arg' = called.v
            /\ val' = Nothing
            /\ thrown' = IF outcome.thrown THEN outcome.v ELSE Nothing
            /\ promise' = IF outcome.thrown THEN "none" ELSE "pending"
            /\ stack' = NoStack
            /\ here' = Undefined
            /\ steps' = 0
            /\ context' = Undefined
            /\ invoked' = TRUE

\* fn's promise is fulfilled with 42 or rejected with an error, and the
\* handlers AsyncThrowable chained on it run
SettleAsyncThrowable ==
    \E settled \in {Return(Num(42))} \cup { Throw(e) : e \in RawErrors },
       stk \in Stacks :
        /\ promise = "pending"
        /\ settled.thrown \/ stk = NoStack
        /\ op' = IF settled.thrown THEN "AsyncThrowable:catch"
                  ELSE "AsyncThrowable:then"
        /\ arg' = settled.v
        /\ val' = AsyncThrowableSettle(settled, stk)
        /\ thrown' = Nothing
        /\ promise' = "fulfilled"
        /\ stack' = stk
        /\ here' = getCallSite(stk)
        /\ steps' = 0
        /\ UNCHANGED <<context, invoked>>

Next ==
    \/ CallOk
    \/ CallErr
    \/ MakeError
    \/ Serialize
    \/ CallUnwrap
    \/ CallUnwrapErr
    \/ CallThrowable
    \/ CallTrace
    \/ CallWithoutTraces
    \/ CallMap
    \/ CallAsyncThrowable
    \/ SettleAsyncThrowable

Spec == Init /\ [][Next]_vars

\* ------------------------------------------------------ notions of the claims

\* a Failure by its shape: an object whose isErr flag is true and that has a
\* trace field (an ErrImpl, or one that went through the text encoding)
IsFailure(v) == In("isErr", v) /\ Get(v, "isErr") = Bool(TRUE) /\ In("_trace", v)

\* a Success: an OkImpl
IsSuccess(v) == InstanceOf(v, "OkImpl")

\* the trace contributed by the last capture: one entry, or none
HereSeq == IF here # Undefined THEN <<here>> ELSE <<>>

IsPrefix(s, t) == Len(s) <= Len(t) /\ SubSeq(t, 1, Len(s)) = s

\* structural equality as the tests use it (toEqual): classes are not compared
\* and a property holding undefined counts as absent
RECURSIVE Plain(_)
Plain(v) ==
    CASE v.k = "obj" ->
            Obj("Object",
                [n \in {m \in DOMAIN v.f : v.f[m] # Undefined} |-> Plain(v.f[n])])
      [] v.k = "arr" -> Arr([i \in DOMAIN v.items |-> Plain(v.items[i])])
      [] OTHER -> v

StructEq(a, b) == Plain(a) = Plain(b)

\* a value the text encoding gives back structurally equal
Faithful(v) == StructEq(JSONRoundTrip(v), v)

\* ------------------------------------------------------------------- claims

\* C1: re-wrapping a Failure f with Err(f) gives f's trace, in the same order,
\* followed by the newly captured call site when capture succeeded.
C1_RewrapAppendsCallSite ==
    (op = "Err" /\ IsErrImpl(arg)) => TraceOf(val) = TraceOf(arg) \o HereSeq

\* C2: Err on a raw error whose `cause` is a Failure c gives c's trace followed
\* by the newly captured call site: the new call site is the last entry.
C2_CauseTraceThenCallSite ==
    (op = "Err" /\ ~IsFailure(arg) /\ HasCause(arg)
                /\ IsErrImpl(Get(arg, "cause")))
        => TraceOf(val) = TraceOf(Get(arg, "cause")) \o HereSeq

\* C3: the trace is append-only under re-wrapping: for every Failure f, also
\* one whose error value has a `cause` link to a Failure, the trace of Err(f)
\* has f's trace as a prefix and is longer than it by zero or one entry.
C3_TraceAppendOnly ==
    (op = "Err" /\ IsErrImpl(arg))
        => /\ IsPrefix(TraceOf(arg), TraceOf(val))
           /\ Len(TraceOf(val)) - Len(TraceOf(arg)) \in {0, 1}

\* C4: round trip through the text encoding, for every Failure f with a
\* non-empty trace (and an error value the encoding preserves): the decoded
\* value is a Failure with a structurally equal trace and error value, and Err
\* on the decoded value gives f's trace plus the one new entry and the same
\* error value, the outcome of Err(f) on the in-memory value.
C4_RoundTripThenRewrap ==
    [][ (op = "JSON" /\ IsErrImpl(arg) /\ TraceOf(arg) # <<>>
                     /\ Faithful(Get(arg, "Err")))
            => /\ IsFailure(val)
               /\ StructEq(Arr(TraceOf(val)), Arr(TraceOf(arg)))
               /\ StructEq(Get(val, "Err"), Get(arg, "Err"))
               /\ (op' = "Err" /\ arg' = val /\ here' # Undefined)
                    => /\ StructEq(Arr(TraceOf(val')),
                                   Arr(TraceOf(arg) \o <<here'>>))
                       /\ Len(TraceOf(val')) = Len(TraceOf(arg)) + 1
                       /\ StructEq(Get(val', "Err"), Get(arg, "Err"))
                       /\ StructEq(val', Err(arg, stack')) ]_vars

\* C5: Err takes its input for a Failure to re-wrap exactly when the input has
\* the shape of one (isErr true and a trace field); any other input is a raw
\* error value; Err returns a Failure and raises nothing.
C5_RecognizedByShape ==
    op = "Err"
        => /\ thrown = Nothing
           /\ IsErrImpl(val)
           /\ Get(val, "Err") = IF IsFailure(arg) THEN Get(arg, "Err") ELSE arg

\* C6: the error value of Err(input) is input's underlying error value when
\* input is a Failure, so that it is never itself a Failure, and input itself
\* otherwise, also when input has a `cause` link to a Failure.
C6_ErrorValueFlattened ==
    op = "Err"
        => /\ IsFailure(arg) => Get(val, "Err") = Get(arg, "Err")
           /\ ~IsFailure(arg) => Get(val, "Err") = arg
           /\ ~IsFailure(Get(val, "Err"))

\* C7, as stated: for every error value e that is not a Failure, also one with
\* a `cause` field, the trace of Err(e) has length 0 or 1, and 1 exactly when
\* capture succeeded.
C7_RawTraceAtMostOne ==
    (op = "Err" /\ ~IsFailure(arg))
        => Len(TraceOf(val)) = IF here # Undefined THEN 1 ELSE 0

\* C7, amended: for every error value e that is not a Failure and whose
\* `cause`, if it has one, is not a Failure, the trace of Err(e) is the
\* captured call site alone when capture succeeded, and empty when it did not.
C7_RawTraceWithoutFailureCause ==
    (op = "Err" /\ ~IsFailure(arg) /\ ~IsFailure(Get(arg, "cause")))
        => /\ here = getCallSite(stack)
           /\ TraceOf(val) = HereSeq
           /\ Len(TraceOf(val)) = IF here # Undefined THEN 1 ELSE 0

C7_Witness ==
    /\ op = "Err"
    /\ ~IsFailure(arg)
    /\ HasCause(arg)
    /\ IsSuccess(Get(arg, "cause"))
    /\ here # Undefined
    /\ Len(TraceOf(val)) = 1

\* what a thrown value t carries: it is e, or it refers to e as the error of a
\* Failure or as its cause, or it is an Error with e's message
Carries(t, e) ==
    \/ t = e
    \/ Get(t, "Err") = e
    \/ Get(t, "cause") = e
    \/ /\ In("message", t)
       /\ Get(t, "message") = (IF In("message", e) THEN Get(e, "message") ELSE e)

\* C8: unwrap(r) returns v when r is a Success carrying v; when r is a Failure
\* carrying e it raises, and what it raises carries e.
C8_UnwrapRaisesTheError ==
    op = "unwrap"
        => IF IsSuccess(arg)
           THEN thrown = Nothing /\ val = Get(arg, "Ok")
           ELSE thrown # Nothing /\ Carries(thrown, Get(arg, "Err"))

\* C9: unwrapErr(r) returns e when r is a Failure carrying e; when r is a
\* Success carrying v it raises, and what it raises carries v as its payload.
C9_UnwrapErrRaisesTheValue ==
    op = "unwrapErr"
        => IF IsSuccess(arg)
           THEN thrown # Nothing /\ Carries(thrown, Get(arg, "Ok"))
           ELSE thrown = Nothing /\ val = Get(arg, "Err")

\* C10: Throwable(() => unwrap(r)) never throws; it returns a Success
\* carrying v when r is a Success carrying v, and a Failure whose error value
\* is e when r is a Failure carrying e.
C10_QuestionMarkPattern ==
    op = "Throwable:unwrap"
        => /\ thrown = Nothing
           /\ IF IsSuccess(arg)
              THEN IsSuccess(val) /\ Get(val, "Ok") = Get(arg, "Ok")
              ELSE IsErrImpl(val) /\ Get(val, "Err") = Get(arg, "Err")

\* C11: a context string given to Err(input, context) is attached to the one
\* newly appended CallSite, the last trace entry, and the entries before it
\* are those of the input, their context fields unchanged.
C11_ContextOnNewCallSite ==
    (op = "Err" /\ context # Undefined /\ here # Undefined)
        => /\ TraceOf(val) # <<>>
           /\ Get(TraceOf(val)[Len(TraceOf(val))], "context") = context
           /\ IsErrImpl(arg) =>
                 IsPrefix(TraceOf(arg), TraceOf(val))

\* the operations that return a Result, or a promise of one
ResultOps ==
    { "Ok", "Err", "Throwable:unwrap", "Throwable:return", "Throwable:throw",
      "AsyncThrowable:then", "AsyncThrowable:catch" }

\* C12: every value produced by Ok, Err, Throwable or AsyncThrowable is
\* exactly one variant: exactly one of isOk and isErr is true; a Success has
\* its Err field undefined and no trace; a Failure has its Ok field undefined
\* and a trace that is a sequence.
C12_ExactlyOneVariant ==
    (op \in ResultOps /\ val # Nothing)
        => /\ IsResult(val)
           /\ {Get(val, "isOk"), Get(val, "isErr")} = {Bool(TRUE), Bool(FALSE)}
           /\ Get(val, "isOk") = Bool(TRUE)
                => /\ Get(val, "Err") = Undefined
                   /\ ~In("_trace", val)
                   /\ ~HasTraceMethod(val)
           /\ Get(val, "isErr") = Bool(TRUE)
                => /\ Get(val, "Ok") = Undefined
                   /\ In("_trace", val)
                   /\ Get(val, "_trace").k = "arr"

C12_Witness ==
    /\ op = "AsyncThrowable:catch"
    /\ Get(val, "isErr") = Bool(TRUE)
    /\ Get(val, "isOk") = Bool(FALSE)
    /\ TraceOf(val) = <<>>

\* C13: withoutTraces on a Failure returns a Failure with the same error value
\* and an empty trace; on a Success it returns the very same Success.
C13_WithoutTraces ==
    op = "withoutTraces"
        => /\ thrown = Nothing
           /\ IsErrImpl(arg)
                => /\ IsFailure(val)
                   /\ Get(val, "Err") = Get(arg, "Err")
                   /\ TraceOf(val) = <<>>
           /\ IsSuccess(arg) => val = arg

C13_Witness ==
    /\ op = "withoutTraces"
    /\ IsErrImpl(arg)
    /\ Len(TraceOf(arg)) >= 2
    /\ TraceOf(val) = <<>>

\* C14: map on a Failure never calls fn and returns a Failure with the same
\* error value and the same trace; on a Success carrying v it returns exactly
\* the Result fn(v), not wrapped again.
C14_Map ==
    \A fn \in MapFns :
        op = "map:" \o fn
            => /\ thrown = Nothing
               /\ IsErrImpl(arg)
                    => /\ ~invoked
                       /\ IsFailure(val)
                       /\ Get(val, "Err") = Get(arg, "Err")
                       /\ TraceOf(val) = TraceOf(arg)
               /\ IsSuccess(arg)
                    => /\ invoked
                       /\ val = ApplyFn(fn, Get(arg, "Ok"), stack)
                       /\ IsSuccess(val) => ~IsResult(Get(val, "Ok"))

C14_Witness ==
    /\ op = "map:double"
    /\ arg = Ok(<<Num(42)>>)
    /\ val = Ok(<<Num(84)>>)
    /\ invoked

\* C15: trace(r) on a Success returns the empty sequence and does not raise;
\* on a Failure it returns that Failure's trace.
C15_TraceOfAnyResult ==
    op = "trace"
        => /\ thrown = Nothing
           /\ val = Arr(IF IsSuccess(arg) THEN <<>> ELSE TraceOf(arg))

\* the line of the function that called Err: the one after the line of Err
ErrLine(stk) == CHOOSE i \in 1..Len(stk.lines) : stk.lines[i].fn = "Err"
HasCallerLine(stk) ==
    /\ stk.present
    /\ Len(stk.lines) > ErrLine(stk)
    /\ stk.lines[ErrLine(stk) + 1].shape # ""

\* C16: in both stack dialects the recorded call site is the frame of the
\* immediate caller of Err, the one after the frames of the stack report and
\* of Err, whether or not the report starts with a header line.
C16_ImmediateCaller ==
    (op = "Err" /\ HasCallerLine(stack))
        => here = ParseLine(stack.lines[ErrLine(stack) + 1])

\* the texts one of the four patterns of getCallSite matches
Matched(l) == l.shape \in {"at fn (loc)", "fn@loc", "at (loc)", "at loc"}

CaptureFails(stk) ==
    \/ ~stk.present
    \/ Len(stk.lines) < 4
    \/ ~Matched(stk.lines[4])

\* C17: with the stack text absent, shorter than 4 lines, or its selected line
\* matched by no pattern, nothing is recorded and nothing is raised: Err still
\* returns a Failure with the supplied error value, and its trace is one entry
\* shorter than the trace of the same call with a successful capture.
C17_CaptureBestEffort ==
    (op = "Err" /\ CaptureFails(stack))
        => /\ here = Undefined
           /\ thrown = Nothing
           /\ IsFailure(val)
           /\ Get(val, "Err") = (IF IsErrImpl(arg) THEN Get(arg, "Err") ELSE arg)
           /\ \A s2 \in Stacks :
                ~CaptureFails(s2)
                    => Len(TraceOf(Err(arg, s2))) = Len(TraceOf(val)) + 1

C17_Witness ==
    /\ op = "Err"
    /\ stack.present
    /\ Len(stack.lines) >= 4
    /\ ~Matched(stack.lines[4])
    /\ IsErrImpl(arg)
    /\ TraceOf(arg) # <<>>
    /\ TraceOf(val) = TraceOf(arg)

\* C18: a failure of fn never escapes AsyncThrowable: the call returns a
\* promise and raises nothing, and the promise is fulfilled with a Success
\* carrying the value fn's promise resolved with, or with a Failure carrying
\* what fn's promise was rejected with or what fn threw.
C18_NeverEscapes ==
    /\ op = "AsyncThrowable" => (thrown = Nothing /\ promise = "pending")
    /\ op = "AsyncThrowable:then" => (IsSuccess(val) /\ Get(val, "Ok") = arg)
    /\ op = "AsyncThrowable:catch" => (IsFailure(val) /\ Get(val, "Err") = arg)

====
